---- MODULE Spec2Model ----
(***************************************************************************)
(* The embedding boundary of py-spy (src/lib.rs): a process-wide table     *)
(* HASHMAP from pid to Sampler behind one Mutex, and the three exported    *)
(* operations pyspy_init, pyspy_cleanup and pyspy_snapshot, called from    *)
(* several caller threads.  Strings are TLA+ strings; Len is the byte      *)
(* length (all text here is ASCII).  Lengths stay far below 2^31, so the   *)
(* `as i32` casts of lib.rs are value preserving.                          *)
(***************************************************************************)
EXTENDS Integers, Sequences, FiniteSets, TLC

(* ------------------------------ bounds -------------------------------- *)

\* Calls made to the boundary, over all caller threads.
MaxCalls == 3
\* Stack frames of copy_error the platform holds before the stack is exhausted.
MaxStack == 3

(* ------------------------------ inputs -------------------------------- *)

Threads == {"t1", "t2"}
NoThread == "none"
Pids == {41, 42}
\* What a single caller passes (SpecSeq): the blocking flag of pyspy_init, the
\* declared length of the output buffer and that of the error buffer.
BlockingFlags == {-1, 0, 1}
Lens == {-1, 12, 27}
ErrLens == {-1, 18, 19, 31}
\* The fewer values that concurrent callers pass (Spec).
ConcFlags == {1}
ConcLens == {12}
ConcErrLens == {18, 31}

(* ------------------------ text of the boundary ------------------------ *)

BufferTooSmall == "buffer is too small"
NotFound == "could not find spy for this pid"
\* err.to_string() of a failed Sampler::new: attachment and layout errors
NewErrors == {"Permission denied",
              "Failed to find python version from target process"}

Digit(d) ==
    CASE d = 0 -> "0" [] d = 1 -> "1" [] d = 2 -> "2" [] d = 3 -> "3"
      [] d = 4 -> "4" [] d = 5 -> "5" [] d = 6 -> "6" [] d = 7 -> "7"
      [] d = 8 -> "8" [] OTHER -> "9"

RECURSIVE Display(_)
\* format!("{}", n) of a non-negative integer: its decimal digits
Display(n) == IF n < 10 THEN Digit(n) ELSE Display(n \div 10) \o Digit(n % 10)

(* --------------------- frames, traces and samples --------------------- *)

\* Option<String> is a sequence of at most one string
None == << >>
Some(x) == << x >>

FrameBar == [name |-> "bar", filename |-> "/src/a.py",
             short_filename |-> Some("a.py"), line |-> 20]
FrameFoo == [name |-> "foo", filename |-> "/src/a.py",
             short_filename |-> Some("a.py"), line |-> 10]
FrameRun == [name |-> "run", filename |-> "lib.so",
             short_filename |-> None, line |-> 0]

TraceMain  == [thread_id |-> 1, active |-> TRUE,  frames |-> <<FrameBar, FrameFoo>>]
TraceIdle  == [thread_id |-> 2, active |-> FALSE, frames |-> <<FrameFoo>>]
TraceRun   == [thread_id |-> 3, active |-> TRUE,  frames |-> <<FrameRun>>]
TraceEmpty == [thread_id |-> 4, active |-> TRUE,  frames |-> << >>]

\* the trace lists a successful capture may hold
Captures == { <<TraceMain>>, <<TraceIdle, TraceMain>>, <<TraceIdle>>,
              <<TraceRun, TraceMain>>, <<TraceEmpty>> }

\* seq is the position of the Sample in the sequence of its Sampler
OkSample(traces, seq) == [traces |-> traces, error |-> FALSE, seq |-> seq]
\* a failed capture: no traces, the error recorded beside them
ErrSample(seq) == [traces |-> << >>, error |-> TRUE, seq |-> seq]

(* ----------------------------- rendering ------------------------------ *)

Filename(frame) ==
    IF frame.short_filename # None THEN frame.short_filename[1] ELSE frame.filename

FrameStr(frame) ==
    IF frame.line # 0
    THEN Filename(frame) \o ":" \o Display(frame.line) \o " - " \o frame.name
    ELSE Filename(frame) \o " - " \o frame.name

\* string_list.push(s): the frames in the order they are held
Insert0_Push(string_list, s) == string_list \o <<s>>

\* string_list.insert(0, s)
Insert0(string_list, s) == <<s>> \o string_list

RECURSIVE PushFrames(_, _)
\* the loop over &thread.frames
PushFrames(frames, string_list) ==
    IF frames = << >> THEN string_list
    ELSE PushFrames(Tail(frames), Insert0(string_list, FrameStr(Head(frames))))

\* the first trace, active or not
FirstActive_Any(traces) == IF traces = << >> THEN << >> ELSE << Head(traces) >>

RECURSIVE FirstActive(_)
\* the loop over traces: skip the inactive ones, stop at the first active one
FirstActive(traces) ==
    IF traces = << >> THEN << >>
    ELSE IF ~Head(traces).active THEN FirstActive(Tail(traces))
    ELSE << Head(traces) >>

StringList(traces) ==
    IF FirstActive(traces) = << >> THEN << >>
    ELSE PushFrames(FirstActive(traces)[1].frames, << >>)

RECURSIVE Join(_, _)
\* string_list.join(sep)
Join(string_list, sep) ==
    IF string_list = << >> THEN ""
    ELSE IF Len(string_list) = 1 THEN string_list[1]
    ELSE string_list[1] \o sep \o Join(Tail(string_list), sep)

\* a shuffle that leaves the list as it is
Shuffles_Keep(traces) == { traces }

\* traces.shuffle(&mut thread_rng()): any permutation of the list
Shuffles(traces) ==
    { [i \in 1..Len(traces) |-> traces[p[i]]] :
        p \in { q \in [1..Len(traces) -> 1..Len(traces)] :
                  \A i, j \in 1..Len(traces) : i # j => q[i] # q[j] } }

(* ------------------------------ Sampler ------------------------------- *)

\* Config::default().blocking
DefaultStrategy == "Blocking"

\* a flag test that takes every value below 1 for NonBlocking
Strategy_Positive(blocking) == IF blocking > 0 THEN DefaultStrategy ELSE "NonBlocking"

\* config.blocking after lines 100-103: the default unless the flag is 0
Strategy(blocking) == IF blocking = 0 THEN "NonBlocking" ELSE DefaultStrategy

\* the Sampler a successful Sampler::new(pid, &config) returns
NewSampler(id, pid, blocking) ==
    [id |-> id, pid |-> pid, blocking |-> Strategy(blocking), ended |-> FALSE,
     yielded |-> 0]

\* Sampler::new fails with one of NewErrors; it succeeds only on a live target
NewOutcomes(tgt) ==
    { [ok |-> FALSE, err |-> e] : e \in NewErrors }
      \cup (IF tgt = "alive" THEN { [ok |-> TRUE, err |-> ""] } ELSE {})

\* A capture begins: under Blocking the Spy pauses the target, when there is
\* a target to pause, and holds the pause until the capture is over.
Pauses(sampler, tgt) == sampler.blocking = "Blocking" /\ tgt = "alive"

\* What the read of a capture comes to: the traces of the threads, a
\* transient failure, or the loss of a target that has exited.
CaptureResults(tgt) ==
    IF tgt = "exited" THEN { [kind |-> "exited", traces |-> << >>] }
    ELSE { [kind |-> "ok", traces |-> c] : c \in Captures }
           \cup { [kind |-> "failed", traces |-> << >>] }

\* the Sample made of a capture
SampleOf(capture, seq) ==
    IF capture.kind = "ok" THEN OkSample(capture.traces, seq) ELSE ErrSample(seq)

\* One pull of the Sampler's sequence: nothing once it has ended; otherwise
\* the Sample of the capture just made, which is the last one when the target
\* has exited.
SamplerNext(sampler, capture) ==
    IF sampler.ended THEN [item |-> None, sampler |-> sampler]
    ELSE [item |-> Some(SampleOf(capture, sampler.yielded + 1)),
          sampler |-> [sampler EXCEPT !.yielded = @ + 1,
                                      !.ended = (capture.kind = "exited")]]

(* ------------------------------- state -------------------------------- *)

VARIABLES
    map,      \* HASHMAP: a function from the tracked pids to their Sampler
    live,     \* the Samplers constructed and not yet dropped: their id and pid
    nextId,   \* id of the next Sampler constructed
    lock,     \* the thread holding the Mutex of HASHMAP, or NoThread
    target,   \* per pid: "alive" or "exited"
    calls,    \* calls made so far
    crashed,  \* the process was aborted
    pc,       \* per thread: where it is in its call
    arg,      \* per thread: the operation called and its arguments
    frame,    \* per thread: err_str of the current copy_error frame, and its depth
    loc,      \* per thread: the Sampler pyspy_init holds before inserting it
    ret,      \* per thread: status returned, bytes written to the two buffers
    obs,      \* per thread: what the call saw (recorded for the properties)
    paused,   \* per pid: pauses of the target made and not yet resumed
    guard     \* per thread: the capture it runs holds a pause of the target

vars == <<map, live, nextId, lock, target, calls, crashed, pc, arg, frame, loc,
          ret, obs, paused, guard>>

Arg0 == [op |-> "none", pid |-> 0, blocking |-> 0, len |-> 0, err_len |-> 0]
Frame0 == [err_str |-> "", depth |-> 0]
Ret0 == [status |-> 0, out |-> "", err |-> ""]
Obs0 == [found |-> None, sampler |-> None, capture |-> None, item |-> None,
         shuffled |-> << >>, line |-> None, msg |-> None, prior |-> {}]

Init ==
    /\ map = << >>
    /\ live = {}
    /\ nextId = 1
    /\ lock = NoThread
    /\ target = [p \in Pids |-> "alive"]
    /\ calls = 0
    /\ crashed = FALSE
    /\ pc = [t \in Threads |-> "idle"]
    /\ arg = [t \in Threads |-> Arg0]
    /\ frame = [t \in Threads |-> Frame0]
    /\ loc = [t \in Threads |-> {}]
    /\ ret = [t \in Threads |-> Ret0]
    /\ obs = [t \in Threads |-> Obs0]
    /\ paused = [p \in Pids |-> 0]
    /\ guard = [t \in Threads |-> FALSE]

(* --------------------------- HashMap, Mutex --------------------------- *)

\* entry(pid).or_insert(sampler): an entry already there stays
Insert_OrInsert(m, pid, sampler) ==
    [q \in DOMAIN m \cup {pid} |-> IF q \in DOMAIN m THEN m[q] ELSE sampler]

\* map.insert(pid, sampler)
Insert(m, pid, sampler) ==
    [q \in DOMAIN m \cup {pid} |-> IF q = pid THEN sampler ELSE m[q]]

\* map.clear(): every entry goes
Remove_Clear(m, pid) == << >>

\* a remove that leaves the entry in place
Remove_Keep(m, pid) == m

\* map.remove(&pid)
Remove(m, pid) == [q \in DOMAIN m \ {pid} |-> m[q]]

\* a Sampler as live records it
Ident(sampler) == [id |-> sampler.id, pid |-> sampler.pid]

\* the value insert or remove takes out of the map, dropped by the caller
Displaced(m, pid) == IF pid \in DOMAIN m THEN {Ident(m[pid])} ELSE {}

\* the MutexGuard goes out of scope when the function returns
Unlock(t) == IF lock = t THEN NoThread ELSE lock

(* ----------------------------- the calls ------------------------------ *)

Enter(t, a, start) ==
    /\ ~crashed
    /\ pc[t] \in {"idle", "done"}
    /\ calls < MaxCalls
    /\ calls' = calls + 1
    /\ arg' = [arg EXCEPT ![t] = a]
    /\ pc' = [pc EXCEPT ![t] = start]
    /\ frame' = [frame EXCEPT ![t] = Frame0]
    /\ ret' = [ret EXCEPT ![t] = Ret0]
    /\ obs' = [obs EXCEPT ![t] = Obs0]
    /\ UNCHANGED <<map, live, nextId, lock, target, crashed, loc, paused,
                   guard>>

CallInit(t, flags, errLens) ==
    \E p \in Pids, b \in flags, e \in errLens :
        Enter(t, [op |-> "init", pid |-> p, blocking |-> b, len |-> 0,
                  err_len |-> e], "init_new")

CallCleanup(t, errLens) ==
    \E p \in Pids, e \in errLens :
        Enter(t, [op |-> "cleanup", pid |-> p, blocking |-> 0, len |-> 0,
                  err_len |-> e], "cleanup_lock")

CallSnapshot(t, lens, errLens) ==
    \E p \in Pids, n \in lens, e \in errLens :
        Enter(t, [op |-> "snapshot", pid |-> p, blocking |-> 0, len |-> n,
                  err_len |-> e], "snapshot_lock")

\* a lock that is taken whether or not another thread holds it
Lock_NoWait(t, at, then) ==
    /\ ~crashed
    /\ pc[t] = at
    /\ lock' = t
    /\ pc' = [pc EXCEPT ![t] = then]
    /\ UNCHANGED <<map, live, nextId, target, calls, crashed, arg, frame, loc,
                   ret, obs, paused, guard>>

\* HASHMAP.lock(): blocks until the Mutex is free
Lock(t, at, then) ==
    /\ ~crashed
    /\ pc[t] = at
    /\ lock = NoThread
    /\ lock' = t
    /\ pc' = [pc EXCEPT ![t] = then]
    /\ UNCHANGED <<map, live, nextId, target, calls, crashed, arg, frame, loc,
                   ret, obs, paused, guard>>

\* a call of copy_error(err_ptr, err_len, err_str) begins
CallCopyError(t, err_str) ==
    /\ pc' = [pc EXCEPT ![t] = "copy_error"]
    /\ frame' = [frame EXCEPT ![t] = [err_str |-> err_str, depth |-> 1]]
    /\ ret' = ret

(* ----------------------------- copy_error ----------------------------- *)

\* a comparison that lets one byte too many through
TooLong_OffByOne(err_str, err_len) == Len(err_str) > err_len + 1

\* line 90: l as i32 > err_len
TooLong(err_str, err_len) == Len(err_str) > err_len

\* lines 90-92: the message does not fit, recurse with the fallback
CopyErrorRecurse(t) ==
    /\ ~crashed
    /\ pc[t] = "copy_error"
    /\ TooLong(frame[t].err_str, arg[t].err_len)
    /\ frame[t].depth < MaxStack
    /\ frame' = [frame EXCEPT ![t] = [err_str |-> BufferTooSmall,
                                      depth |-> frame[t].depth + 1]]
    /\ UNCHANGED <<map, live, nextId, lock, target, calls, crashed, pc, arg,
                   loc, ret, obs, paused, guard>>

\* The recursion has used the whole stack.  A build that keeps the frames
\* aborts the process; a build that turns the self call into a jump loops.
CopyErrorExhaust(t) ==
    /\ ~crashed
    /\ pc[t] = "copy_error"
    /\ TooLong(frame[t].err_str, arg[t].err_len)
    /\ frame[t].depth >= MaxStack
    /\ \/ crashed' = TRUE /\ pc' = [pc EXCEPT ![t] = "overflow"]
       \/ crashed' = crashed /\ pc' = [pc EXCEPT ![t] = "spin"]
    /\ UNCHANGED <<map, live, nextId, lock, target, calls, arg, frame, loc, ret,
                   obs, paused, guard>>

\* lines 93-95: copy the l bytes of the message, return -l
CopyErrorWrite(t) ==
    /\ ~crashed
    /\ pc[t] = "copy_error"
    /\ ~TooLong(frame[t].err_str, arg[t].err_len)
    /\ ret' = [ret EXCEPT ![t].err = frame[t].err_str,
                          ![t].status = -Len(frame[t].err_str)]
    /\ pc' = [pc EXCEPT ![t] = "done"]
    /\ lock' = Unlock(t)
    /\ UNCHANGED <<map, live, nextId, target, calls, crashed, arg, frame, loc,
                   obs, paused, guard>>

(* ----------------------------- pyspy_init ----------------------------- *)

\* line 104, Ok: Sampler::new built a Sampler, which the call now owns
InitNewOk(t) ==
    /\ ~crashed
    /\ pc[t] = "init_new"
    /\ \E o \in NewOutcomes(target[arg[t].pid]) : o.ok
    /\ loc' = [loc EXCEPT ![t] = {NewSampler(nextId, arg[t].pid, arg[t].blocking)}]
    /\ live' = live \cup {[id |-> nextId, pid |-> arg[t].pid]}
    /\ nextId' = nextId + 1
    /\ pc' = [pc EXCEPT ![t] = "init_lock"]
    /\ UNCHANGED <<map, lock, target, calls, crashed, arg, frame, ret, obs,
                   paused, guard>>

\* a failed construction that also evicts the entry of the pid
InitNewErr_Evict(t) ==
    /\ ~crashed
    /\ pc[t] = "init_new"
    /\ \E o \in NewOutcomes(target[arg[t].pid]) :
         /\ ~o.ok
         /\ CallCopyError(t, o.err)
         /\ obs' = [obs EXCEPT ![t].msg = Some(o.err)]
    /\ map' = [q \in DOMAIN map \ {arg[t].pid} |-> map[q]]
    /\ live' = live \ Displaced(map, arg[t].pid)
    /\ UNCHANGED <<nextId, lock, target, calls, crashed, arg, loc, paused,
                   guard>>

\* lines 104 and 110, Err: the message goes to copy_error, the map is not touched
InitNewErr(t) ==
    /\ ~crashed
    /\ pc[t] = "init_new"
    /\ \E o \in NewOutcomes(target[arg[t].pid]) :
         /\ ~o.ok
         /\ CallCopyError(t, o.err)
         /\ obs' = [obs EXCEPT ![t].msg = Some(o.err)]
    /\ UNCHANGED <<map, live, nextId, lock, target, calls, crashed, arg, loc,
                   paused, guard>>

\* an init that goes on to the map without taking the Mutex
InitLock_NoMutex(t) ==
    /\ ~crashed
    /\ pc[t] = "init_lock"
    /\ pc' = [pc EXCEPT ![t] = "init_insert"]
    /\ UNCHANGED <<map, live, nextId, lock, target, calls, crashed, arg, frame,
                   loc, ret, obs, paused, guard>>

\* line 106
InitLock(t) == Lock(t, "init_lock", "init_insert")

\* lines 107-108: insert, drop the Sampler insert returns, return 1
InitInsert(t) ==
    /\ ~crashed
    /\ pc[t] = "init_insert"
    /\ \E sampler \in loc[t] :
         /\ map' = Insert(map, arg[t].pid, sampler)
         /\ live' = live \ Displaced(map, arg[t].pid)
         /\ obs' = [obs EXCEPT ![t].prior = Displaced(map, arg[t].pid)]
    /\ loc' = [loc EXCEPT ![t] = {}]
    /\ ret' = [ret EXCEPT ![t].status = 1]
    /\ lock' = Unlock(t)
    /\ pc' = [pc EXCEPT ![t] = "done"]
    /\ UNCHANGED <<nextId, target, calls, crashed, arg, frame, paused, guard>>

(* ---------------------------- pyspy_cleanup --------------------------- *)

\* a cleanup that goes on to the map without taking the Mutex
CleanupLock_NoMutex(t) ==
    /\ ~crashed
    /\ pc[t] = "cleanup_lock"
    /\ pc' = [pc EXCEPT ![t] = "cleanup_remove"]
    /\ UNCHANGED <<map, live, nextId, lock, target, calls, crashed, arg, frame,
                   loc, ret, obs, paused, guard>>

\* line 116
CleanupLock(t) == Lock(t, "cleanup_lock", "cleanup_remove")

\* a cleanup that reports a pid it does not find
CleanupRemove_Strict(t) ==
    /\ ~crashed
    /\ pc[t] = "cleanup_remove"
    /\ IF arg[t].pid \in DOMAIN map
       THEN /\ ret' = [ret EXCEPT ![t].status = 1]
            /\ pc' = [pc EXCEPT ![t] = "done"]
            /\ lock' = Unlock(t)
            /\ frame' = frame
       ELSE /\ CallCopyError(t, NotFound)
            /\ lock' = lock
    /\ map' = [q \in DOMAIN map \ {arg[t].pid} |-> map[q]]
    /\ live' = live \ Displaced(map, arg[t].pid)
    /\ obs' = [obs EXCEPT ![t].prior = Displaced(map, arg[t].pid)]
    /\ UNCHANGED <<nextId, target, calls, crashed, arg, loc, paused, guard>>

\* lines 117-118: remove, drop the Sampler remove returns, return 1
CleanupRemove(t) ==
    /\ ~crashed
    /\ pc[t] = "cleanup_remove"
    /\ map' = Remove(map, arg[t].pid)
    /\ live' = live \ Displaced(map, arg[t].pid)
    /\ obs' = [obs EXCEPT ![t].prior = Displaced(map, arg[t].pid)]
    /\ ret' = [ret EXCEPT ![t].status = 1]
    /\ lock' = Unlock(t)
    /\ pc' = [pc EXCEPT ![t] = "done"]
    /\ UNCHANGED <<nextId, target, calls, crashed, arg, frame, loc, paused,
                   guard>>

(* --------------------------- pyspy_snapshot --------------------------- *)

\* line 155
Joined(traces) == Join(StringList(traces), ";")

\* a comparison that lets a line one byte too long through
TooSmall_OffByOne(len, joined) == len + 1 < Len(joined)

\* line 159: len < (l as i32)
TooSmall(len, joined) == len < Len(joined)

\* line 129
SnapshotLock(t) == Lock(t, "snapshot_lock", "snapshot_get")

\* lines 130 and 172-176: no Sampler for the pid
SnapshotNone(t) ==
    /\ ~crashed
    /\ pc[t] = "snapshot_get"
    /\ arg[t].pid \notin DOMAIN map
    /\ CallCopyError(t, NotFound)
    /\ obs' = [obs EXCEPT ![t].found = Some(FALSE), ![t].msg = Some(NotFound)]
    /\ UNCHANGED <<map, live, nextId, lock, target, calls, crashed, arg, loc,
                   paused, guard>>

\* a snapshot that removes the entry of a Sampler whose sequence has ended
SnapshotEnded_Evict(t) ==
    /\ ~crashed
    /\ pc[t] = "snapshot_get"
    /\ arg[t].pid \in DOMAIN map
    /\ \E c \in CaptureResults(target[arg[t].pid]) :
         SamplerNext(map[arg[t].pid], c).item = None
    /\ map' = Remove(map, arg[t].pid)
    /\ live' = live \ Displaced(map, arg[t].pid)
    /\ obs' = [obs EXCEPT ![t].found = Some(TRUE),
                          ![t].sampler = Some(map[arg[t].pid].id)]
    /\ ret' = [ret EXCEPT ![t].status = 0]
    /\ lock' = Unlock(t)
    /\ pc' = [pc EXCEPT ![t] = "done"]
    /\ UNCHANGED <<nextId, target, calls, crashed, arg, frame, loc, paused,
                   guard>>

\* lines 132 and 170: the Sampler's sequence yields nothing, return 0
SnapshotEnded(t) ==
    /\ ~crashed
    /\ pc[t] = "snapshot_get"
    /\ arg[t].pid \in DOMAIN map
    /\ \E c \in CaptureResults(target[arg[t].pid]) :
         SamplerNext(map[arg[t].pid], c).item = None
    /\ obs' = [obs EXCEPT ![t].found = Some(TRUE),
                          ![t].sampler = Some(map[arg[t].pid].id)]
    /\ ret' = [ret EXCEPT ![t].status = 0]
    /\ lock' = Unlock(t)
    /\ pc' = [pc EXCEPT ![t] = "done"]
    /\ UNCHANGED <<map, live, nextId, target, calls, crashed, arg, frame, loc,
                   paused, guard>>

\* line 132: the pull begins a capture, which pauses the target under Blocking
SnapshotCapture(t) ==
    /\ ~crashed
    /\ pc[t] = "snapshot_get"
    /\ arg[t].pid \in DOMAIN map
    /\ ~map[arg[t].pid].ended
    /\ guard' = [guard EXCEPT ![t] = Pauses(map[arg[t].pid], target[arg[t].pid])]
    /\ paused' = [paused EXCEPT ![arg[t].pid] = IF guard'[t] THEN @ + 1 ELSE @]
    /\ pc' = [pc EXCEPT ![t] = "snapshot_capture"]
    /\ obs' = [obs EXCEPT ![t].found = Some(TRUE),
                          ![t].sampler = Some(map[arg[t].pid].id)]
    /\ UNCHANGED <<map, live, nextId, lock, target, calls, crashed, arg, frame,
                   loc, ret>>

\* the capture is over: the pause it holds is resumed
Resume(t) ==
    /\ paused' = [paused EXCEPT ![arg[t].pid] = IF guard[t] THEN @ - 1 ELSE @]
    /\ guard' = [guard EXCEPT ![t] = FALSE]

\* a too small buffer that leaves the Sample for the next call
SnapshotTooSmall_Peek(t) ==
    /\ ~crashed
    /\ pc[t] = "snapshot_capture"
    /\ \E c \in CaptureResults(target[arg[t].pid]) :
         LET r == SamplerNext(map[arg[t].pid], c) IN
         /\ map' = map
         /\ \E traces \in Shuffles(r.item[1].traces) :
              /\ TooSmall(arg[t].len, Joined(traces))
              /\ obs' = [obs EXCEPT ![t].capture = Some(c.kind),
                                    ![t].item = r.item,
                                    ![t].shuffled = traces,
                                    ![t].line = Some(Joined(traces)),
                                    ![t].msg = Some(BufferTooSmall)]
    /\ Resume(t)
    /\ CallCopyError(t, BufferTooSmall)
    /\ UNCHANGED <<live, nextId, lock, target, calls, crashed, arg, loc>>

\* lines 132-162: a Sample whose line is longer than the output buffer
SnapshotTooSmall(t) ==
    /\ ~crashed
    /\ pc[t] = "snapshot_capture"
    /\ \E c \in CaptureResults(target[arg[t].pid]) :
         LET r == SamplerNext(map[arg[t].pid], c) IN
         /\ map' = [map EXCEPT ![arg[t].pid] = r.sampler]
         /\ \E traces \in Shuffles(r.item[1].traces) :
              /\ TooSmall(arg[t].len, Joined(traces))
              /\ obs' = [obs EXCEPT ![t].capture = Some(c.kind),
                                    ![t].item = r.item,
                                    ![t].shuffled = traces,
                                    ![t].line = Some(Joined(traces)),
                                    ![t].msg = Some(BufferTooSmall)]
    /\ Resume(t)
    /\ CallCopyError(t, BufferTooSmall)
    /\ UNCHANGED <<live, nextId, lock, target, calls, crashed, arg, loc>>

\* a snapshot that drops the Sampler of the pid when the Sample is an error Sample
SnapshotWrite_DropFailed(t) ==
    /\ ~crashed
    /\ pc[t] = "snapshot_capture"
    /\ \E c \in CaptureResults(target[arg[t].pid]) :
         LET r == SamplerNext(map[arg[t].pid], c) IN
         /\ IF r.item[1].error
            THEN /\ map' = Remove(map, arg[t].pid)
                 /\ live' = live \ Displaced(map, arg[t].pid)
            ELSE /\ map' = [map EXCEPT ![arg[t].pid] = r.sampler]
                 /\ live' = live
         /\ \E traces \in Shuffles(r.item[1].traces) :
              /\ ~TooSmall(arg[t].len, Joined(traces))
              /\ obs' = [obs EXCEPT ![t].capture = Some(c.kind),
                                    ![t].item = r.item,
                                    ![t].shuffled = traces,
                                    ![t].line = Some(Joined(traces))]
              /\ ret' = [ret EXCEPT ![t].out = Joined(traces),
                                    ![t].status = Len(Joined(traces))]
    /\ Resume(t)
    /\ lock' = Unlock(t)
    /\ pc' = [pc EXCEPT ![t] = "done"]
    /\ UNCHANGED <<nextId, target, calls, crashed, arg, frame, loc>>

\* lines 132-166: a Sample whose line fits: copy its l bytes, return l
SnapshotWrite(t) ==
    /\ ~crashed
    /\ pc[t] = "snapshot_capture"
    /\ \E c \in CaptureResults(target[arg[t].pid]) :
         LET r == SamplerNext(map[arg[t].pid], c) IN
         /\ map' = [map EXCEPT ![arg[t].pid] = r.sampler]
         /\ \E traces \in Shuffles(r.item[1].traces) :
              /\ ~TooSmall(arg[t].len, Joined(traces))
              /\ obs' = [obs EXCEPT ![t].capture = Some(c.kind),
                                    ![t].item = r.item,
                                    ![t].shuffled = traces,
                                    ![t].line = Some(Joined(traces))]
              /\ ret' = [ret EXCEPT ![t].out = Joined(traces),
                                    ![t].status = Len(Joined(traces))]
    /\ Resume(t)
    /\ lock' = Unlock(t)
    /\ pc' = [pc EXCEPT ![t] = "done"]
    /\ UNCHANGED <<live, nextId, target, calls, crashed, arg, frame, loc>>

(* ----------------------------- the target ----------------------------- *)

\* the target process exits on its own
TargetExit(p) ==
    /\ ~crashed
    /\ target[p] = "alive"
    /\ target' = [target EXCEPT ![p] = "exited"]
    /\ UNCHANGED <<map, live, nextId, lock, calls, crashed, pc, arg, frame, loc,
                   ret, obs, paused, guard>>

(* -------------------------- the specification ------------------------- *)

\* the caller starts a call, its arguments drawn from flags, lens and errLens
Call(t, flags, lens, errLens) ==
    \/ CallInit(t, flags, errLens)
    \/ CallCleanup(t, errLens)
    \/ CallSnapshot(t, lens, errLens)

\* the thread takes the next step of the call it is in
Step(t) ==
    \/ InitNewOk(t) \/ InitNewErr(t) \/ InitLock(t) \/ InitInsert(t)
    \/ CleanupLock(t) \/ CleanupRemove(t)
    \/ SnapshotLock(t) \/ SnapshotNone(t) \/ SnapshotEnded(t)
    \/ SnapshotCapture(t) \/ SnapshotTooSmall(t) \/ SnapshotWrite(t)
    \/ CopyErrorRecurse(t) \/ CopyErrorExhaust(t) \/ CopyErrorWrite(t)

\* several caller threads, whose calls interleave
Next ==
    \/ \E t \in Threads : Call(t, ConcFlags, ConcLens, ConcErrLens) \/ Step(t)
    \/ \E p \in Pids : TargetExit(p)

Spec == Init /\ [][Next]_vars

\* one caller thread, every buffer length
NextSeq ==
    \/ Call("t1", BlockingFlags, Lens, ErrLens) \/ Step("t1")
    \/ \E p \in Pids : TargetExit(p)

SpecSeq == Init /\ [][NextSeq]_vars

(* ---------------------------- properties ------------------------------ *)

\* the call of thread t has returned
Returned(t) == pc[t] = "done"

\* the call of thread t went through copy_error and returned
Reported(t) == Returned(t) /\ obs[t].msg # None

\* C1: a failure that pyspy_init or pyspy_snapshot reports through the error
\* buffer wrote at most err_len bytes there, returned a strictly negative
\* status, and the magnitude of the status is the number of bytes written:
\* those of the message when it fits, of "buffer is too small" when not.
C1_ErrorBufferBounded ==
    \A t \in Threads :
        Reported(t) =>
            /\ arg[t].op \in {"init", "snapshot"}
            /\ Len(ret[t].err) <= arg[t].err_len
            /\ ret[t].status < 0
            /\ -ret[t].status = Len(ret[t].err)
            /\ -ret[t].status <= arg[t].err_len
            /\ ret[t].err = IF Len(obs[t].msg[1]) <= arg[t].err_len
                            THEN obs[t].msg[1] ELSE "buffer is too small"

\* a message longer than the error buffer was replaced by the fallback
C1_Witness ==
    \E t \in Threads :
        /\ Reported(t)
        /\ arg[t].op = "init"
        /\ Len(obs[t].msg[1]) > arg[t].err_len
        /\ ret[t].err = "buffer is too small"
        /\ ret[t].status = -19

\* C2: with an error buffer shorter than "buffer is too small", copy_error
\* terminates: it does not call itself again from the call made for the
\* fallback message, and it never exhausts the stack or loops.
C2_FallbackTerminates ==
    \A t \in Threads :
        /\ pc[t] \notin {"overflow", "spin"}
        /\ pc[t] = "copy_error" => frame[t].depth <= 2

\* C3: a snapshot of a tracked pid that rendered a line of L bytes wrote exactly
\* those L bytes and returned L when L <= len; when L > len it wrote nothing
\* to the output buffer, put "buffer is too small" in the error buffer and
\* returned a negative status.  No call writes more than len bytes of output.
C3_OutputBufferBounded ==
    \A t \in Threads :
        /\ ret[t].out # "" => Len(ret[t].out) <= arg[t].len
        /\ (Returned(t) /\ arg[t].op = "snapshot" /\ obs[t].line # None) =>
              IF Len(obs[t].line[1]) <= arg[t].len
              THEN /\ ret[t].out = obs[t].line[1]
                   /\ ret[t].status = Len(obs[t].line[1])
                   /\ ret[t].err = ""
              ELSE /\ ret[t].out = ""
                   /\ ret[t].err = "buffer is too small"
                   /\ ret[t].status < 0

\* a line exactly as long as the output buffer was written whole
C3_Witness ==
    \E t \in Threads :
        /\ Returned(t)
        /\ arg[t].op = "snapshot"
        /\ obs[t].line # None
        /\ Len(obs[t].line[1]) = arg[t].len
        /\ ret[t].status = arg[t].len
        /\ arg[t].len > 0

\* the frames of the thread a snapshot rendered: the first active thread of
\* the shuffled traces, if there is one
Rendered(t) ==
    { obs[t].shuffled[i].frames : i \in
        { k \in 1..Len(obs[t].shuffled) :
            /\ obs[t].shuffled[k].active
            /\ \A j \in 1..(k - 1) : ~obs[t].shuffled[j].active } }

\* "file:line - name", or "file - name" when the line is 0; file is the short
\* file name when there is one
FoldedFrame(f) ==
    (IF f.short_filename = None THEN f.filename ELSE f.short_filename[1])
      \o (IF f.line = 0 THEN "" ELSE ":" \o Display(f.line))
      \o " - " \o f.name

RECURSIVE FoldedLine(_)
\* the frames from the last (outermost) to the first (innermost), ';' between
FoldedLine(frames) ==
    IF frames = << >> THEN ""
    ELSE IF Len(frames) = 1 THEN FoldedFrame(frames[1])
    ELSE FoldedLine(Tail(frames)) \o ";" \o FoldedFrame(frames[1])

\* C4: the line a snapshot exports lists the frames of the selected thread,
\* held innermost first, in reverse order (outermost first, innermost last),
\* joined by ';' with no separator before or after, each frame as
\* "file:line - name", or "file - name" when its line is 0; the frames
\* bar@a.py:20, foo@a.py:10 give "a.py:10 - foo;a.py:20 - bar".
C4_FoldedStackLine ==
    \A t \in Threads :
        (Returned(t) /\ arg[t].op = "snapshot" /\ ret[t].status >= 0) =>
            \A frames \in Rendered(t) :
                /\ ret[t].out = FoldedLine(frames)
                /\ ret[t].status = Len(FoldedLine(frames))
                /\ frames = <<FrameBar, FrameFoo>> =>
                       ret[t].out = "a.py:10 - foo;a.py:20 - bar"
                /\ frames = <<FrameRun>> => ret[t].out = "lib.so - run"

\* the two frames of the example were exported, outermost first
C4_Witness ==
    \E t \in Threads :
        /\ Returned(t)
        /\ arg[t].op = "snapshot"
        /\ Rendered(t) = { <<FrameBar, FrameFoo>> }
        /\ ret[t].out = "a.py:10 - foo;a.py:20 - bar"
        /\ ret[t].status = 27

\* the registry holds no Sampler for the pid of the call of thread t
Untracked(t) == arg[t].pid \notin DOMAIN map

\* thread t returns from its call in this step
Returns(t) == pc[t] # "done" /\ pc'[t] = "done"

\* C5 as claimed: a snapshot returns the status and the message of "could not
\* find spy for this pid" exactly when the pid is not tracked.
C5_NotFoundIffUntracked ==
    \A t \in Threads :
        (Returned(t) /\ arg[t].op = "snapshot") =>
            ((ret[t].status = -31 /\ ret[t].err = "could not find spy for this pid")
                <=> Untracked(t))

\* C5, amended: a snapshot that returns reports "could not find spy for this
\* pid" (status -31) exactly when the pid is untracked and the error buffer
\* holds the 31 bytes; with an untracked pid and a shorter error buffer it
\* reports "buffer is too small" (status -19); a pid is tracked from the
\* return of a successful init to the return of the next cleanup, and nothing
\* else (the target exiting included) adds or removes it.
C5_NotFoundAmended ==
    /\ [](\A t \in Threads :
            (Returned(t) /\ arg[t].op = "snapshot") =>
              /\ (ret[t].status = -31 /\ ret[t].err = "could not find spy for this pid")
                   <=> (Untracked(t) /\ arg[t].err_len >= 31)
              /\ (Untracked(t) /\ arg[t].err_len < 31) =>
                   (ret[t].status = -19 /\ ret[t].err = "buffer is too small")
              /\ Untracked(t) => ret[t].out = "")
    /\ [][/\ \A t \in Threads :
               /\ (Returns(t) /\ arg[t].op = "init" /\ ret'[t].status = 1)
                    => arg[t].pid \in DOMAIN map'
               /\ (Returns(t) /\ arg[t].op = "cleanup")
                    => arg[t].pid \notin DOMAIN map'
          /\ \A p \in Pids :
               (p \in DOMAIN map' <=> p \notin DOMAIN map) =>
                   \E t \in Threads :
                       /\ Returns(t)
                       /\ arg[t].pid = p
                       /\ \/ arg[t].op = "init" /\ ret'[t].status = 1
                          \/ arg[t].op = "cleanup"]_vars

\* a snapshot made after a cleanup of a pid that had been tracked reported
\* not-found in full
C5_Witness ==
    \E t \in Threads :
        /\ Returned(t)
        /\ arg[t].op = "snapshot"
        /\ ret[t].status = -31
        /\ ret[t].err = "could not find spy for this pid"
        /\ nextId > 1
        /\ live = {}

\* thread t takes a step
Stepped(t) == pc'[t] # pc[t] \/ frame'[t] # frame[t]

\* the entry of pid q in the registry m: none, or its Sampler
Entry(m, q) == IF q \in DOMAIN m THEN << m[q] >> ELSE << >>

\* C6: pyspy_cleanup returns 1 for every pid, tracked or not, writes nothing
\* to the error buffer and leaves no entry for the pid; on a pid with no
\* entry (never started, or cleaned up just before) it returns the same 1 and
\* leaves the registry and the live Samplers as they were.
C6_CleanupIdempotent ==
    /\ [](\A t \in Threads :
            arg[t].op = "cleanup" =>
              /\ pc[t] \in {"cleanup_lock", "cleanup_remove", "done"}
              /\ ret[t].err = "" /\ ret[t].out = ""
              /\ Returned(t) => ret[t].status = 1)
    /\ [][\A t \in Threads :
            (Returns(t) /\ arg[t].op = "cleanup") =>
              /\ arg[t].pid \notin DOMAIN map'
              /\ \A q \in Pids \ {arg[t].pid} : Entry(map', q) = Entry(map, q)
              /\ arg[t].pid \notin DOMAIN map => (map' = map /\ live' = live)]_vars

\* a cleanup returned 1 on a pid whose Sampler an earlier call had removed
C6_Witness ==
    \E t \in Threads :
        /\ Returned(t)
        /\ arg[t].op = "cleanup"
        /\ ret[t].status = 1
        /\ obs[t].prior = {}
        /\ nextId > 1
        /\ live = {}

\* the live Samplers attached to pid p
LiveOf(p) == { s \in live : s.pid = p }

\* the threads whose pyspy_init on pid p holds a Sampler it has not inserted
Inserting(p) == { t \in Threads : loc[t] # {} /\ arg[t].pid = p }

\* C7 as claimed: at most one Sampler exists per pid at any time.
C7_OneSamplerPerPid == \A p \in Pids : Cardinality(LiveOf(p)) <= 1

\* C7, amended: the registry holds at most one Sampler per pid, and every
\* other live Sampler is one a pyspy_init has built and not yet inserted, so
\* a pid has at most one Sampler more per such call; the insert puts the
\* Sampler the call built (from its own flag) in the registry and destroys
\* the one it replaces, so once the inits have returned one Sampler is left.
C7_OneSamplerAmended ==
    /\ [](/\ live = { Ident(map[p]) : p \in DOMAIN map }
                      \cup { Ident(s) : s \in UNION { loc[t] : t \in Threads } }
          /\ \A p \in DOMAIN map : map[p].pid = p
          /\ \A t \in Threads : loc[t] # {} => pc[t] \in {"init_lock", "init_insert"}
          /\ \A p \in Pids :
               Cardinality(LiveOf(p)) <= 1 + Cardinality(Inserting(p)))
    /\ [][\A t \in Threads :
            (Returns(t) /\ arg[t].op = "init" /\ ret'[t].status = 1) =>
              /\ loc[t] = { map'[arg[t].pid] }
              /\ map'[arg[t].pid].blocking =
                   (IF arg[t].blocking = 0 THEN "NonBlocking" ELSE "Blocking")
              /\ \A q \in DOMAIN map :
                   q = arg[t].pid => Ident(map[q]) \notin live'
              /\ loc'[t] = {}]_vars

\* two inits of one pid have both returned 1, the second having replaced the
\* Sampler of the first, and one Sampler is left
C7_Witness ==
    \E t, u \in Threads :
        /\ t # u
        /\ Returned(t) /\ arg[t].op = "init" /\ ret[t].status = 1
        /\ Returned(u) /\ arg[u].op = "init" /\ ret[u].status = 1
        /\ arg[t].pid = arg[u].pid
        /\ obs[t].prior # {}
        /\ Cardinality(LiveOf(arg[t].pid)) = 1

\* thread t takes a step of a pyspy_init whose Sampler::new failed
FailedInitStep(t) ==
    /\ arg[t].op = "init"
    /\ Stepped(t)
    /\ pc[t] = "copy_error" \/ pc'[t] = "copy_error"

\* C8: a pyspy_init whose Sampler construction fails returns a negative
\* status, and none of its steps changes the registry: no entry is created,
\* and an entry the pid already had is neither removed nor replaced.
C8_FailedInitKeepsRegistry ==
    /\ [](\A t \in Threads :
            (Reported(t) /\ arg[t].op = "init") =>
                (ret[t].status < 0 /\ loc[t] = {}))
    /\ [][\A t \in Threads :
            FailedInitStep(t) => (map' = map /\ live' = live /\ lock' = lock)]_vars

\* an init failed on a pid that still has the entry it had
C8_Witness ==
    \E t \in Threads :
        /\ Reported(t)
        /\ arg[t].op = "init"
        /\ ret[t].status < 0
        /\ arg[t].pid \in DOMAIN map

\* thread t takes a step that reports a boundary error, or a step of a snapshot
BoundaryStep(t) ==
    /\ Stepped(t)
    /\ \/ arg[t].op = "snapshot"
       \/ pc[t] = "copy_error"
       \/ pc'[t] = "copy_error"

\* C9: a step of an operation on pid p changes neither the registry entry nor
\* the Sampler of any other pid, and destroys no Sampler of another pid; a
\* step that reports a boundary error (and every step of a snapshot) adds no
\* entry and removes none.
C9_OtherPidsUntouched ==
    [][/\ \A q \in Pids :
            Entry(map', q) # Entry(map, q) =>
                \E t \in Threads : Stepped(t) /\ arg[t].pid = q
       /\ \A s \in live \ live' :
            \E t \in Threads : Stepped(t) /\ arg[t].pid = s.pid
       /\ \A t \in Threads :
            BoundaryStep(t) => (DOMAIN map' = DOMAIN map /\ live' = live)]_vars

\* a snapshot failed on a buffer too small while both pids were tracked, and
\* both still are
C9_Witness ==
    \E t \in Threads :
        /\ Reported(t)
        /\ arg[t].op = "snapshot"
        /\ ret[t].err = "buffer is too small"
        /\ obs[t].line # None
        /\ DOMAIN map = Pids

\* a snapshot obtained a Sample that gave nothing to render: no active thread,
\* or an active thread that has no frames
NothingToRender(t) ==
    /\ obs[t].item # None
    /\ \A frames \in Rendered(t) : frames = << >>

\* C10 as claimed: a snapshot returns 0 only when it obtained a Sample and the
\* Sample has no active thread to render; it does not return 0 when no Sample
\* was obtained.
C10_ZeroOnlyWithSample ==
    \A t \in Threads :
        (Returned(t) /\ arg[t].op = "snapshot" /\ ret[t].status = 0) =>
            NothingToRender(t)

\* C10, amended: a snapshot returns 0 exactly when the pid is tracked, len is
\* not negative, and either no Sample was obtained (the Sampler's sequence
\* has ended) or the Sample gave nothing to render: no active thread, or a
\* selected active thread without frames.  It does not return 0 when a frame
\* was rendered.
C10_ZeroAmended ==
    \A t \in Threads :
        (Returned(t) /\ arg[t].op = "snapshot") =>
            /\ ret[t].status = 0 <=>
                 /\ ~Untracked(t)
                 /\ \/ obs[t].item = None
                    \/ /\ arg[t].len >= 0
                       /\ \A frames \in Rendered(t) : frames = << >>
            /\ ret[t].status = 0 => ret[t].out = ""

\* a snapshot returned 0 without a Sample: the Sampler's sequence had ended
C10_Witness ==
    \E t \in Threads :
        /\ Returned(t)
        /\ arg[t].op = "snapshot"
        /\ ret[t].status = 0
        /\ obs[t].item = None
        /\ ~Untracked(t)
        /\ map[arg[t].pid].ended

\* the lines of the threads of a Sample that are flagged active, one per thread
ActiveLines(sample) ==
    { FoldedLine(sample.traces[i].frames) :
        i \in { k \in 1..Len(sample.traces) : sample.traces[k].active } }

\* C11: the line a snapshot renders is that of exactly one thread of the
\* Sample, and that thread is flagged active: no frame of an inactive thread
\* and no mix of two threads is exported, and nothing is rendered when no
\* thread is active.  Every active thread of the Sample can be the one chosen:
\* whatever the capture holds, the step that renders it can select each of its
\* active threads.
C11_OneActiveThread ==
    \A t \in Threads :
        /\ (arg[t].op = "snapshot" /\ obs[t].line # None) =>
              /\ obs[t].item # None
              /\ IF ActiveLines(obs[t].item[1]) = {}
                 THEN obs[t].line[1] = ""
                 ELSE obs[t].line[1] \in ActiveLines(obs[t].item[1])
              /\ (Returned(t) /\ ret[t].status >= 0) => ret[t].out = obs[t].line[1]
              /\ \A frames \in Rendered(t) : obs[t].line[1] = FoldedLine(frames)
        /\ pc[t] = "snapshot_capture" =>
              \A c \in CaptureResults(target[arg[t].pid]) :
                  \A i \in 1..Len(c.traces) :
                      c.traces[i].active =>
                          ENABLED ( /\ SnapshotTooSmall(t) \/ SnapshotWrite(t)
                                    /\ obs'[t].item[1].traces = c.traces
                                    /\ Rendered(t)' = { c.traces[i].frames } )

\* of a Sample of two active threads, held <<run, main>>, the second was chosen
C11_Witness ==
    \E t \in Threads :
        /\ Returned(t)
        /\ arg[t].op = "snapshot"
        /\ obs[t].item # None
        /\ obs[t].item[1].traces = <<TraceRun, TraceMain>>
        /\ ret[t].out = "a.py:10 - foo;a.py:20 - bar"
        /\ ret[t].status = 27

\* thread t is in the part of its call that runs with the MutexGuard in scope
Holding(t) ==
    \/ pc[t] \in {"init_insert", "cleanup_remove", "snapshot_get", "snapshot_capture"}
    \/ arg[t].op = "snapshot" /\ pc[t] \in {"copy_error", "spin", "overflow"}

\* C12: whatever the interleaving of the caller threads, at most one capture
\* is in flight, so two snapshots of the same pid never pull from its Sampler
\* at the same time: a thread reads or changes the map and the Samplers in it
\* only while it holds the one Mutex, which one thread holds at a time.
C12_OneCaptureInFlight ==
    /\ [](\A t \in Threads : Holding(t) <=> lock = t)
    /\ [](\A t, u \in Threads :
             (pc[t] = "snapshot_capture" /\ pc[u] = "snapshot_capture") => t = u)
    /\ [][map' # map => \E t \in Threads : lock = t /\ Stepped(t)]_vars

\* a snapshot is in its capture while a snapshot of the same pid by the other
\* thread waits for the Mutex
C12_Witness ==
    \E t, u \in Threads :
        /\ t # u
        /\ pc[t] = "snapshot_capture"
        /\ pc[u] = "snapshot_lock"
        /\ arg[u].pid = arg[t].pid
        /\ lock = t

\* the snapshot of thread t has found the Sampler of its pid and has not
\* returned: it is about to pull from it, is pulling, or reports the result
InFlight(t) ==
    /\ arg[t].op = "snapshot"
    /\ \/ pc[t] = "snapshot_get" /\ arg[t].pid \in DOMAIN map
       \/ pc[t] = "snapshot_capture"
       \/ pc[t] = "copy_error" /\ obs[t].found = Some(TRUE)

\* C13: a pyspy_cleanup(pid), or a pyspy_init(pid) that replaces the entry,
\* called while a snapshot of pid is in flight does not interrupt it.  From the
\* lookup to the return of the snapshot the same Sampler stays registered for
\* the pid and is not destroyed, no other thread changes the map, and the
\* cleanup or the replacement takes effect only after the snapshot has
\* returned; the snapshot is never kept from taking its next step while the
\* process lives.
C13_SnapshotNotInterrupted ==
    /\ [](\A t \in Threads :
             InFlight(t) => /\ lock = t
                            /\ arg[t].pid \in DOMAIN map
                            /\ Ident(map[arg[t].pid]) \in live
                            /\ crashed \/ ENABLED Step(t)
                            /\ \A u \in Threads \ {t} :
                                   pc[u] \notin {"cleanup_remove", "init_insert"})
    /\ [][\A t \in Threads :
             InFlight(t) =>
                 /\ arg[t].pid \in DOMAIN map'
                 /\ map'[arg[t].pid].id = map[arg[t].pid].id
                 /\ Ident(map'[arg[t].pid]) \in live'
                 /\ map' # map => Stepped(t)
                 /\ \A u \in Threads \ {t} :
                        (arg[u].op \in {"cleanup", "init"} /\ Returns(u)) =>
                            (map' = map /\ live' = live)]_vars

\* a cleanup of the pid waits for the Mutex while the snapshot is in its capture
C13_Witness ==
    \E t, u \in Threads :
        /\ t # u
        /\ InFlight(t)
        /\ pc[t] = "snapshot_capture"
        /\ arg[u].op = "cleanup"
        /\ pc[u] = "cleanup_lock"
        /\ arg[u].pid = arg[t].pid

\* the snapshot of thread t ends its capture and pulls a Sample in this step
Pulls(t) == pc[t] = "snapshot_capture" /\ pc'[t] # "snapshot_capture"

\* C14: once the target has exited, the next pull yields one error Sample,
\* the last of the Sampler's sequence, and every later pull yields nothing.
\* The pull does not remove the entry: a later snapshot of the pid finds the
\* Sampler, obtains no Sample, and returns 0 with nothing written to the
\* output buffer or the error buffer and the Sampler left as it was.
C14_ExitedTargetEndsSequence ==
    /\ [](\A p \in DOMAIN map : map[p].ended => target[p] = "exited")
    /\ [][\A t \in Threads :
             /\ (Pulls(t) /\ target[arg[t].pid] = "exited") =>
                    /\ ~map[arg[t].pid].ended
                    /\ obs'[t].item = Some(ErrSample(map[arg[t].pid].yielded + 1))
                    /\ arg[t].pid \in DOMAIN map'
                    /\ map'[arg[t].pid].ended
                    /\ map'[arg[t].pid].id = map[arg[t].pid].id
             /\ (pc[t] = "snapshot_get" /\ Stepped(t) /\ ~Untracked(t)
                   /\ map[arg[t].pid].ended) =>
                    /\ Returns(t)
                    /\ obs'[t].item = None
                    /\ ret'[t] = [status |-> 0, out |-> "", err |-> ""]
                    /\ map' = map
                    /\ live' = live]_vars
    /\ [][\A p \in DOMAIN map :
             (map[p].ended /\ p \in DOMAIN map' /\ map'[p].id = map[p].id) =>
                 map'[p] = map[p]]_vars

\* after the terminal Sample, a snapshot of the pid found the Sampler, got no
\* Sample and returned 0
C14_Witness ==
    \E t \in Threads :
        /\ Returned(t)
        /\ arg[t].op = "snapshot"
        /\ target[arg[t].pid] = "exited"
        /\ ~Untracked(t)
        /\ map[arg[t].pid].ended
        /\ map[arg[t].pid].yielded = 1
        /\ obs[t].found = Some(TRUE)
        /\ obs[t].item = None
        /\ ret[t] = [status |-> 0, out |-> "", err |-> ""]

\* C15: a capture that fails while the target lives yields an error Sample
\* and nothing else changes: the failure does not end the sequence, drops no
\* Sample and removes no entry, and the next capture, when it succeeds,
\* yields a success Sample.  Every capture yields exactly one Sample, and the
\* Samples take the positions 1, 2, ... of the sequence in the order of the
\* captures, so N failures and then a success yield N error Samples and then
\* one success Sample.
C15_TransientFailuresKeepSequence ==
    /\ [](\A p \in DOMAIN map : target[p] = "alive" => ~map[p].ended)
    /\ [][\A t \in Threads :
             Pulls(t) =>
                 /\ obs'[t].capture # None
                 /\ obs'[t].item # None
                 /\ obs'[t].item[1].seq = map[arg[t].pid].yielded + 1
                 /\ DOMAIN map' = DOMAIN map
                 /\ map'[arg[t].pid].id = map[arg[t].pid].id
                 /\ map'[arg[t].pid].yielded = map[arg[t].pid].yielded + 1
                 /\ obs'[t].item[1].error <=> obs'[t].capture[1] # "ok"
                 /\ obs'[t].capture[1] = "ok" =>
                        obs'[t].item[1].traces \in Captures
                 /\ obs'[t].capture[1] = "failed" =>
                        /\ ~map'[arg[t].pid].ended
                        /\ target[arg[t].pid] = "alive"]_vars

\* one failed capture, then a capture that succeeded: the first snapshot got
\* the error Sample, in position 1, the second the success Sample, in position 2
C15_Witness ==
    \E t, u \in Threads :
        /\ Returned(t) /\ Returned(u)
        /\ arg[t].op = "snapshot" /\ arg[u].op = "snapshot"
        /\ arg[t].pid = arg[u].pid
        /\ obs[t].capture = Some("failed")
        /\ obs[t].item = Some(ErrSample(1))
        /\ obs[u].capture = Some("ok")
        /\ obs[u].item = Some(OkSample(<<TraceRun, TraceMain>>, 2))
        /\ ~Untracked(u)
        /\ map[arg[u].pid].yielded = 2

\* the threads whose capture of pid p holds a pause of the target
Pausing(p) == { t \in Threads : guard[t] /\ arg[t].pid = p }

\* the entry of pid p is removed or replaced in this step
Removed(p) ==
    /\ p \in DOMAIN map
    /\ p \notin DOMAIN map' \/ map'[p].id # map[p].id

\* C16: under the Blocking strategy a capture pauses the target before it
\* reads and resumes it once when the capture is over, however it ends (a
\* Sample, a failed read, a target that exited meanwhile, a line that does
\* not fit): pauses and resumes are equal in number whenever no capture is
\* running.  A pause is held only by a capture of a Sampler that is
\* registered, and when a Sampler is removed by a cleanup or replaced by an
\* init no pause of its target is held, before or after.
C16_PauseResumeBalanced ==
    /\ [](\A p \in Pids :
             /\ paused[p] = Cardinality(Pausing(p))
             /\ paused[p] \in {0, 1}
             /\ (\A t \in Threads :
                    ~(pc[t] = "snapshot_capture" /\ arg[t].pid = p)) => paused[p] = 0)
    /\ [](\A t \in Threads :
             guard[t] => /\ pc[t] = "snapshot_capture"
                         /\ lock = t
                         /\ ~Untracked(t)
                         /\ map[arg[t].pid].blocking = "Blocking"
                         /\ Ident(map[arg[t].pid]) \in live)
    /\ [][\A t \in Threads :
             /\ (pc[t] = "snapshot_get" /\ pc'[t] = "snapshot_capture") =>
                    IF map[arg[t].pid].blocking = "Blocking"
                         /\ target[arg[t].pid] = "alive"
                    THEN paused[arg[t].pid] = 0 /\ paused'[arg[t].pid] = 1
                    ELSE paused' = paused
             /\ Pulls(t) =>
                    /\ paused'[arg[t].pid] = paused[arg[t].pid] - (IF guard[t] THEN 1 ELSE 0)
                    /\ paused'[arg[t].pid] = 0
                    /\ ~guard'[t]]_vars
    /\ [][\A p \in Pids : Removed(p) => paused[p] = 0 /\ paused'[p] = 0]_vars

\* a capture holds a pause of a target that has exited since: the capture
\* can only fail, and the pause is still to be resumed
C16_Witness ==
    \E t \in Threads :
        /\ pc[t] = "snapshot_capture"
        /\ guard[t]
        /\ paused[arg[t].pid] = 1
        /\ target[arg[t].pid] = "exited"

\* C17: pyspy_init takes the locking strategy from the blocking flag alone:
\* the Sampler it registers is NonBlocking when blocking is 0 and Blocking for
\* every other value, negative ones included; it returns 1 when it has
\* registered the Sampler, and the strategy of a Sampler never changes.
C17_StrategyFromFlag ==
    /\ [][\A t \in Threads :
             (arg[t].op = "init" /\ Returns(t)) =>
                 /\ ret'[t].status = 1 <=> pc[t] = "init_insert"
                 /\ ret'[t].status = 1 =>
                        /\ arg[t].pid \in DOMAIN map'
                        /\ map'[arg[t].pid].blocking =
                               IF arg[t].blocking = 0 THEN "NonBlocking" ELSE "Blocking"
                        /\ ~map'[arg[t].pid].ended
                        /\ ret'[t].err = "" /\ ret'[t].out = ""]_vars
    /\ [][\A p \in DOMAIN map :
             (p \in DOMAIN map' /\ map'[p].id = map[p].id) =>
                 map'[p].blocking = map[p].blocking]_vars

\* an init with a negative flag registered a Blocking Sampler and returned 1
C17_Witness ==
    \E t \in Threads :
        /\ Returned(t)
        /\ arg[t].op = "init"
        /\ arg[t].blocking < 0
        /\ ret[t].status = 1
        /\ ~Untracked(t)
        /\ map[arg[t].pid].blocking = "Blocking"

\* C18: a snapshot that pulled an error Sample reports the failure: it
\* returns a negative status and puts a message in the error buffer, never 0
\* and never a positive length.
C18_ErrorSampleForwarded ==
    \A t \in Threads :
        (Returned(t) /\ arg[t].op = "snapshot" /\ obs[t].item # None
           /\ obs[t].item[1].error) =>
            /\ ret[t].status < 0
            /\ ret[t].err # ""

\* C19: a snapshot of a tracked pid pulls at most one Sample: the step that
\* ends its capture takes the Sample of the next position out of the
\* Sampler's sequence, whether the line then fits the output buffer or not,
\* and no other step of the call touches the map.  A Sample pulled by a call
\* that failed with "buffer is too small" is consumed: the Sampler has moved
\* past it, no other call obtains the Sample of that position, and the next
\* call renders the Sample of the next position.
C19_OnePullPerSnapshot ==
    /\ [][\A t \in Threads :
             (arg[t].op = "snapshot" /\ ~Returned(t) /\ Stepped(t)) =>
                 IF Pulls(t)
                 THEN /\ map'[arg[t].pid].yielded = map[arg[t].pid].yielded + 1
                      /\ obs'[t].item # None
                      /\ obs'[t].item[1].seq = map'[arg[t].pid].yielded
                      /\ obs'[t].sampler = Some(map[arg[t].pid].id)
                 ELSE map' = map /\ obs'[t].item = obs[t].item]_vars
    /\ [](\A t \in Threads :
             (arg[t].op = "snapshot" /\ obs[t].item # None) =>
                 /\ (~Untracked(t) /\ Some(map[arg[t].pid].id) = obs[t].sampler) =>
                        map[arg[t].pid].yielded >= obs[t].item[1].seq
                 /\ \A u \in Threads \ {t} :
                        (arg[u].op = "snapshot" /\ obs[u].item # None
                           /\ obs[u].sampler = obs[t].sampler) =>
                            obs[u].item[1].seq # obs[t].item[1].seq)

\* a snapshot failed with "buffer is too small" on the Sample of position 1;
\* the next snapshot of the pid rendered the Sample of position 2
C19_Witness ==
    \E t, u \in Threads :
        /\ Returned(t) /\ Returned(u)
        /\ arg[t].op = "snapshot" /\ arg[u].op = "snapshot"
        /\ obs[t].sampler = obs[u].sampler
        /\ obs[t].msg = Some(BufferTooSmall)
        /\ ret[t].status = -19
        /\ obs[t].item # None /\ obs[t].item[1].seq = 1
        /\ obs[u].item # None /\ obs[u].item[1].seq = 2
        /\ ret[u].status > 0

\* thread t waits at HASHMAP.lock()
Waiting(t) == pc[t] \in {"init_lock", "cleanup_lock", "snapshot_lock"}

\* C20: the Mutex never deadlocks.  While the process lives, a call that
\* waits for the Mutex can take it when it is free, and when another thread
\* holds it that thread can take a step of its call, towards the return that
\* releases the Mutex; a call that has returned holds no Mutex, and an init
\* that fails never holds it.
C20_NoDeadlock ==
    \A t \in Threads :
        /\ Returned(t) => lock # t
        /\ (arg[t].op = "init" /\ pc[t] \in {"init_new", "copy_error"}) => lock # t
        /\ (Waiting(t) /\ ~crashed) =>
              \/ lock = NoThread /\ ENABLED Step(t)
              \/ lock \in Threads \ {t} /\ ENABLED Step(lock)

====
